---------------------------- MODULE Spec2Model ----------------------------
(***************************************************************************)
(* A model of the VL53L0X serial monitor (src/app.js, first revision,      *)
(* lines 1-223, with the legacy revision src/unnamed/part_000 where a      *)
(* property is about it).                                                  *)
(*                                                                         *)
(* Five specifications share this module:                                  *)
(*   Spec        the serial session of src/app.js: the button handlers,    *)
(*               the read loop and the device, one action per task of the  *)
(*               browser's event loop;                                     *)
(*   SpecFramer  the line framers fed one text split into chunks;          *)
(*   SpecStore   the bounded record stores under appends, clears and       *)
(*               exports;                                                  *)
(*   SpecClassify  the read loop of a running session on one line, drawn   *)
(*               from every text of a few characters;                      *)
(*   SpecCeil    one call of niceCeil of the legacy revision.              *)
(*                                                                         *)
(* Scheduling.  JavaScript runs one task at a time and drains the          *)
(* microtask queue before the next task.  An await of something that has   *)
(* already settled (a read of a closed or errored stream, cancel() of a    *)
(* closed or errored stream, sendLine with no writer) therefore continues  *)
(* inside the same action; an await of the outside world (requestPort,     *)
(* open, setSignals, write, cancel of an open stream, close, the next      *)
(* line) ends the action and the continuation is an action of its own.     *)
(*                                                                         *)
(* Environment.  One serial device.  open() of a port that is already open *)
(* is refused; a stream that was cancelled, or whose port was closed,      *)
(* answers every read with done; any outside operation may fail; close()  *)
(* of the port aborts its writable stream and fulfils only after the write *)
(* in flight has settled.  Connect                                         *)
(* and Disconnect are not clicked while the other handler is suspended at  *)
(* an await; every other click, line and settlement interleaves freely.    *)
(*                                                                         *)
(* Text.  A line is a sequence of one-character strings, so that prefix    *)
(* tests, the data-line pattern and Number() are computed, not assumed.    *)
(***************************************************************************)
EXTENDS Integers, Sequences, FiniteSets, TLC

VARIABLES
    \* ---- src/app.js:18-22, module state
    port,         \* NULL or the SerialPort handle
    reader,       \* NULL or the reader of the newest line stream
    writer,       \* NULL or the writer of port.writable
    reading,      \* run flag of the read loop
    deviceReady,  \* '# READY' seen in this session
    wantRunning,  \* the user's start intent
    lastHz,       \* the rate of the last Start click
    \* ---- src/app.js:25, 34-45
    records,      \* the recorded samples, oldest first
    axes,         \* [xMin, xMax (ms), yMax (cm)] of the chart options
    \* ---- what the page shows
    status,       \* statusEl.textContent
    \* ---- tasks suspended at an await
    loops,        \* read loops: how many wait in read / sendLine / cancel
    pcConn,       \* the Connect handler
    connFresh,    \* a Connect is pending that was clicked with nothing held
    pcDisc,       \* the Disconnect handler
    cleanDisc,    \* Disconnect found every read loop blocked on reader
    \* ---- the outside world
    devOpen,      \* the device is open
    stream,       \* the newest line stream: none, open, closed, errored
    value,        \* the line the latest task read in the read loop, or NONE
    out,          \* the lines the latest task wrote to the writer
    alerted,      \* the alert() the latest task raised, or NoAlert
    \* ---- SpecFramer
    fInput,          \* the text the device sends, one character per element
    fPos,            \* how many of its characters have been fed
    fChunks,         \* the chunks fed so far, in order
    fClosed,         \* the stream has closed
    fEmitted,        \* lines enqueued by LineBreakTransformer (src/app.js)
    fBuf,            \* its `chunks` field
    fEmittedLegacy,  \* lines handed to parseLine (src/unnamed/part_000)
    fBufLegacy,      \* its `buf` local
    \* ---- SpecStore
    sRecords,        \* `records` of src/app.js
    sLegacy,         \* `records` of src/unnamed/part_000
    sHistory,        \* every sample appended since the last clear, in order
    sCsv,            \* the text the latest task exported (src/app.js), or NONE
    sCsvLegacy,      \* the same for src/unnamed/part_000
    sLine,           \* the line parseLine of src/unnamed/part_000 handled,
                     \* else NONE
    \* ---- the chart options the appends leave
    sAxes,           \* src/app.js:74-84, as `axes`
    sAxesLegacy,     \* src/unnamed/part_000:95-111: [xMin, xMax (ms), yMax (mm)]
    \* ---- src/unnamed/part_000:85-93
    ceilIn,          \* the argument v of a call of niceCeil, 0 before Init
    ceilOut,         \* what the call returned, 0 before it returns
    \* ---- SpecLegacy: the session of src/unnamed/part_000
    lPort,           \* `port`: NULL or "P"
    lWriter,         \* `writer`: NULL or "W"
    lReading,        \* `reading`
    lReader,         \* `reader`: 0 for null, else the number of the
                     \* startReading call that made it
    lDevOpen,        \* the device is open
    lPiped,          \* the reader whose TextDecoderStream port.readable is
                     \* piped to (the pipe locks port.readable), 0 for none
    lBlocked,        \* per reader, the read loops blocked in its read()
    lCount,          \* the startReading calls that made a reader so far
    lWrites          \* the handlers suspended in `await sendLine(..)`, oldest
                     \* first, each by its command

svars == <<port, reader, writer, reading, deviceReady, wantRunning, lastHz,
           records, axes, status, loops, pcConn, connFresh, pcDisc,
           cleanDisc, devOpen, stream, value, out, alerted>>
fvars == <<fInput, fPos, fChunks, fClosed, fEmitted, fBuf, fEmittedLegacy,
           fBufLegacy>>
tvars == <<sRecords, sLegacy, sHistory, sCsv, sCsvLegacy, sLine, sAxes,
           sAxesLegacy, ceilIn, ceilOut>>
lvars == <<lPort, lWriter, lReading, lReader, lDevOpen, lPiped, lBlocked,
           lCount, lWrites>>
vars == <<svars, fvars, tvars, lvars>>

-----------------------------------------------------------------------------
(* Bounds of the model *)

\* src/app.js:26 sets 10000; the model keeps the eviction rule with a small
\* capacity.
MAX_POINTS == 2
\* src/unnamed/part_000:125 keeps 5000 records; scaled the same way.
LEGACY_MAX == 2
\* read loops alive at once
MaxLoops == 2
\* SpecFramer: characters of the text that is fed
MaxText == 5
\* SpecStore: appends since the last clear
MaxAppends == 4
\* SpecClassify: characters of a generated line
MaxLine == 4
MaxStarts == 3      \* the startReading calls of a legacy session
MaxPending == 2     \* the handlers suspended in sendLine at a time

(* Program constants *)
X_SPAN_DEFAULT_SEC == 10
Y_INIT_MAX_CM == 100
DEFAULT_HZ == 50
\* src/unnamed/part_000:24-25
INITIAL_Y_MAX == 1000
INITIAL_X_SPAN == 10000

NULL == "null"
NONE == <<"<none>">>
NoAlert == ""
\* alert('Serial接続に失敗: ' + e), src/app.js:168
AlertConnectFailed == "connect failed"
\* alert('先にConnectしてください'), src/app.js:183, 202
AlertConnectFirst == "connect first"
\* Number('') and Number('abc') are 0 and NaN: both falsy
NaN == -1000

-----------------------------------------------------------------------------
(* Text helpers *)

Max(a, b) == IF a >= b THEN a ELSE b
Min(a, b) == IF a <= b THEN a ELSE b
\* Math.ceil(a / b) for a >= 0, b > 0
CeilDiv(a, b) == (a + b - 1) \div b

Digits == {"0", "1", "2", "3", "4", "5", "6", "7", "8", "9"}
\* what \s matches among the characters used here
Whitespace == {" ", "\t", "\r"}

DigitVal(c) ==
    CASE c = "0" -> 0 [] c = "1" -> 1 [] c = "2" -> 2 [] c = "3" -> 3
      [] c = "4" -> 4 [] c = "5" -> 5 [] c = "6" -> 6 [] c = "7" -> 7
      [] c = "8" -> 8 [] c = "9" -> 9

\* Number(s) of a non-empty digit string
RECURSIVE NumberOf(_)
NumberOf(s) ==
    IF s = <<>> THEN 0
    ELSE 10 * NumberOf(SubSeq(s, 1, Len(s) - 1)) + DigitVal(s[Len(s)])

\* String.prototype.startsWith, and indexOf(p) === 0
startsWith(s, p) == Len(s) >= Len(p) /\ SubSeq(s, 1, Len(p)) = p

\* the first index >= i of s whose character is not in set (Len(s)+1 if none)
RECURSIVE SkipWhile(_, _, _)
SkipWhile(s, i, set) ==
    IF i <= Len(s) /\ s[i] \in set THEN SkipWhile(s, i + 1, set) ELSE i

-----------------------------------------------------------------------------
(* Lines of the wire protocol, as the device sends them *)

LineReady == <<"#", " ", "R", "E", "A", "D", "Y">>
LineStart == <<"#", " ", "S", "T", "A", "R", "T">>
LineStop == <<"#", " ", "S", "T", "O", "P">>
LineReset == <<"#", " ", "R", "E", "S", "E", "T">>
LineCalOk == <<"#", " ", "C", "A", "L", " ", "O", "K">>
LineOffset == <<"#", " ", "O", "F", "F", "S", "E", "T">>
LineOtherMeta == <<"#", "x">>
LineBoot == <<"E", "S", "P", "-", "R", "O", "M", ":", "e">>
LineEmpty == <<>>
LineBad == <<"1", ",", "x">>
LineSmall == <<"1", "0", "0", "0", ",", "5", "0", "0">>
LineBig == <<"1", "2", "0", "0", "0", " ", ",", " ", "2", "5", "0", "3">>

Lines ==
    {LineReady, LineStart, LineStop, LineReset, LineCalOk, LineBoot, LineBad,
     LineSmall, LineBig}

\* what Number(hzNum.value) can be
HzInputs == {NaN, 0, 100}
\* what Number(knownCm.value) can be
CmInputs == {NaN, 30}

(* Outbound command lines: `${cmd} ${key}=${arg}` *)
Cmd(c) == [cmd |-> c, arg |-> 0]
CmdArg(c, a) == [cmd |-> c, arg |-> a]

(* Status texts; "RUNNING" stands for `RUNNING @ ${lastHz} Hz` *)
StatusTexts ==
    {"", "CONNECTING", "READY", "RUNNING", "STOPPED", "CALIBRATED",
     "DISCONNECTED", "WAITING READY"}

-----------------------------------------------------------------------------
(* The store and the chart axes, src/app.js:74-103 *)

\* chart.options.scales as constructed (src/app.js:40-41); x in ms
InitAxes == [xMin |-> 0, xMax |-> X_SPAN_DEFAULT_SEC * 1000, yMax |-> Y_INIT_MAX_CM]

\* chart.options.scales as constructed (src/unnamed/part_000:44-54); x in ms,
\* y in mm
InitAxesLegacy == [xMin |-> 0, xMax |-> INITIAL_X_SPAN, yMax |-> INITIAL_Y_MAX]

\* a faulty eviction: pop() where the code has shift()
pushRecordPop(recs, tMs, distMm) ==
    LET pushed == Append(recs, [tMs |-> tMs, distMm |-> distMm])
    IN  IF Len(pushed) > MAX_POINTS
        THEN SubSeq(pushed, 1, Len(pushed) - 1)
        ELSE pushed

\* records.push(..); if (records.length > MAX_POINTS) records.shift()
pushRecord(recs, tMs, distMm) ==
    LET pushed == Append(recs, [tMs |-> tMs, distMm |-> distMm])
    IN  IF Len(pushed) > MAX_POINTS THEN Tail(pushed) ELSE pushed

\* Math.ceil(latestCm * 1.1) with latestCm = distMm / 10, in exact arithmetic
targetCm(distMm) == Max(Y_INIT_MAX_CM, CeilDiv(distMm * 11, 100))

\* a faulty axis update: suggestedMax = target, without Math.max(curMax, ..)
updateChartAxisNoMax(data, ax) ==
    IF data = <<>> THEN ax
    ELSE LET last == data[Len(data)]
         IN  [xMin |-> Max(0, last.tMs - X_SPAN_DEFAULT_SEC * 1000),
              xMax |-> Max(X_SPAN_DEFAULT_SEC * 1000, last.tMs),
              yMax |-> targetCm(last.distMm)]

\* a faulty axis update whose window does not slide: x.min is left alone
updateChartAxisNoSlide(data, ax) ==
    IF data = <<>> THEN ax
    ELSE LET last == data[Len(data)]
         IN  [xMin |-> ax.xMin,
              xMax |-> Max(X_SPAN_DEFAULT_SEC * 1000, last.tMs),
              yMax |-> Max(ax.yMax, targetCm(last.distMm))]

\* the chart data holds the same samples as records (x = tMs/1000, y = distMm/10)
updateChartAutoAxis(data, ax) ==
    IF data = <<>> THEN ax
    ELSE LET last == data[Len(data)]
         IN  [xMin |-> Max(0, last.tMs - X_SPAN_DEFAULT_SEC * 1000),
              xMax |-> Max(X_SPAN_DEFAULT_SEC * 1000, last.tMs),
              yMax |-> Max(ax.yMax, targetCm(last.distMm))]

pushPoint(recs, ax, tMs, distMm) ==
    LET kept == pushRecord(recs, tMs, distMm)
    IN  [records |-> kept, axes |-> updateChartAutoAxis(kept, ax)]

clearDataAndAxes == [records |-> <<>>, axes |-> InitAxes]

-----------------------------------------------------------------------------
(* Line classification of the read loop, src/app.js:113-143 *)

\* value.match(/^(\d+)\s*,\s*(\d+)/): the two numbers, or no match
\* a match that hands the two fields over in the wrong order
matchDataSwapped(s) ==
    LET a == SkipWhile(s, 1, Digits)
        b == SkipWhile(s, a, Whitespace)
        c == SkipWhile(s, b + 1, Whitespace)
        d == SkipWhile(s, c, Digits)
    IN  IF a > 1 /\ b <= Len(s) /\ s[b] = "," /\ d > c
        THEN [ok |-> TRUE, t |-> NumberOf(SubSeq(s, c, d - 1)),
              d |-> NumberOf(SubSeq(s, 1, a - 1))]
        ELSE [ok |-> FALSE, t |-> 0, d |-> 0]

matchData(s) ==
    LET a == SkipWhile(s, 1, Digits)
        b == SkipWhile(s, a, Whitespace)
        c == SkipWhile(s, b + 1, Whitespace)
        d == SkipWhile(s, c, Digits)
    IN  IF a > 1 /\ b <= Len(s) /\ s[b] = "," /\ d > c
        THEN [ok |-> TRUE, t |-> NumberOf(SubSeq(s, 1, a - 1)),
              d |-> NumberOf(SubSeq(s, c, d - 1))]
        ELSE [ok |-> FALSE, t |-> 0, d |-> 0]

isSkipped(v) == v = <<>> \/ startsWith(v, <<"E", "S", "P", "-", "R", "O", "M", ":">>)
isMeta(v) == startsWith(v, <<"#">>)

\* the status a meta line sets (src/app.js:120-133)
metaStatus(v, st) ==
    IF startsWith(v, LineReady) THEN "READY"
    ELSE IF startsWith(v, LineStart) THEN "RUNNING"
    ELSE IF startsWith(v, LineStop) THEN "STOPPED"
    ELSE IF startsWith(v, LineReset) THEN "READY"
    ELSE IF startsWith(v, LineCalOk) \/ startsWith(v, LineOffset)
         THEN "CALIBRATED"
    ELSE st

\* a faulty branch: the store cleared on '# READY', not on '# RESET'
metaClearsOnReady(v) == startsWith(v, LineReady)

\* whether a meta line clears the store (src/app.js:128-129)
metaClears(v) ==
    /\ ~startsWith(v, LineReady)
    /\ ~startsWith(v, LineStart)
    /\ ~startsWith(v, LineStop)
    /\ startsWith(v, LineReset)

\* a faulty test: `if (!wantRunning)` where the code has `if (wantRunning)`
readyStartsInverted(v, want) == startsWith(v, LineReady) /\ ~want

\* whether '# READY' answers with START (src/app.js:120-123)
readyStarts(v, want) == startsWith(v, LineReady) /\ want

\* Number(hzNum.value) || 50  (src/app.js:184)
requestedHz(v) == IF v = NaN \/ v = 0 THEN DEFAULT_HZ ELSE v

\* Number(knownCm.value) || 0  (src/app.js:203)
requestedCm(v) == IF v = NaN THEN 0 ELSE v

\* sendLine (src/app.js:68-72): nothing without a writer; a writer whose port
\* has gone rejects the write and nothing goes out.  The result is what the
\* call puts on the wire.
sendLine(w, line) == IF w = "W" THEN <<line>> ELSE <<>>

-----------------------------------------------------------------------------
(* The serial session, src/app.js:105-205 *)

NoLoops == [read |-> 0, send |-> 0, fin |-> 0]
LoopCount(l) == l.read + l.send + l.fin

FVarsIdle ==
    /\ fInput = <<>> /\ fPos = 0 /\ fChunks = <<>> /\ fClosed = FALSE
    /\ fEmitted = <<>> /\ fBuf = <<>>
    /\ fEmittedLegacy = <<>> /\ fBufLegacy = <<>>
TVarsIdle ==
    /\ sRecords = <<>> /\ sLegacy = <<>> /\ sHistory = <<>>
    /\ sCsv = NONE /\ sCsvLegacy = NONE /\ sLine = NONE
    /\ sAxes = InitAxes /\ sAxesLegacy = InitAxesLegacy
    /\ ceilIn = 0 /\ ceilOut = 0
LVarsIdle ==
    /\ lPort = NULL /\ lWriter = NULL /\ lReading = FALSE /\ lReader = 0
    /\ lDevOpen = FALSE /\ lPiped = 0
    /\ lBlocked = [k \in 1..MaxStarts |-> 0]
    /\ lCount = 0 /\ lWrites = <<>>
OthersIdle == UNCHANGED <<fvars, tvars, lvars>>

SessionInit ==
    /\ port = NULL /\ reader = NULL /\ writer = NULL
    /\ reading = FALSE /\ deviceReady = FALSE /\ wantRunning = FALSE
    /\ lastHz = DEFAULT_HZ
    /\ records = <<>> /\ axes = InitAxes
    /\ status = ""
    /\ loops = NoLoops /\ pcConn = "idle" /\ connFresh = FALSE
    /\ pcDisc = "idle" /\ cleanDisc = FALSE
    /\ devOpen = FALSE /\ stream = "none" /\ value = NONE
    /\ out = <<>> /\ alerted = NoAlert

Init == SessionInit /\ FVarsIdle /\ TVarsIdle /\ LVarsIdle

\* A read loop at the top of `while (reading)` (src/app.js:110-112) with the
\* other loops l: it blocks in reader.read(), or leaves through finally
\* (src/app.js:145-150).  A read of a null reader throws, a read of a closed
\* stream is done, a read of an errored stream throws: all three leave.
\* Leaving with an open stream cancels it, which ends the loops blocked on
\* it; each loop that ends sets reader to null.
loopTop(l, rdr, strm, rdg) ==
    IF rdg /\ rdr # NULL /\ strm = "open"
    THEN [loops |-> [l EXCEPT !.read = @ + 1], reader |-> rdr, stream |-> strm]
    ELSE IF rdr # NULL /\ strm = "open"
    THEN [loops |-> [read |-> 0, send |-> l.send, fin |-> l.fin + 1],
          reader |-> IF l.read > 0 THEN NULL ELSE rdr, stream |-> "closed"]
    ELSE [loops |-> l, reader |-> NULL, stream |-> strm]

\* a stream that stops being open (cancel, error, close of the port) settles
\* the reads blocked on it; those loops run their finally and null reader
streamEnds(l, rdr) ==
    [loops |-> [l EXCEPT !.read = 0], reader |-> IF l.read > 0 THEN NULL ELSE rdr]

\* a faulty loop that writes START and goes on reading before the write settles
LoopLineKeepsReading(v) ==
    /\ loops.read > 0 /\ stream = "open" /\ devOpen
    /\ value' = v
    /\ alerted' = NoAlert
    /\ LET rest == [loops EXCEPT !.read = @ - 1]
           m == matchData(v)
           starts == ~isSkipped(v) /\ isMeta(v) /\ readyStarts(v, wantRunning)
           next == loopTop(rest, reader, stream, (~starts \/ writer = NULL) /\ reading)
       IN  /\ IF isSkipped(v)
              THEN UNCHANGED <<deviceReady, status, records, axes>>
              ELSE IF isMeta(v)
              THEN /\ deviceReady' = (deviceReady \/ startsWith(v, LineReady))
                   /\ status' = metaStatus(v, status)
                   /\ IF metaClears(v)
                      THEN /\ records' = clearDataAndAxes.records
                           /\ axes' = clearDataAndAxes.axes
                      ELSE UNCHANGED <<records, axes>>
              ELSE /\ UNCHANGED <<deviceReady, status>>
                   /\ IF m.ok
                      THEN /\ records' = pushPoint(records, axes, m.t, m.d).records
                           /\ axes' = pushPoint(records, axes, m.t, m.d).axes
                      ELSE UNCHANGED <<records, axes>>
           /\ out' = IF starts THEN sendLine(writer, CmdArg("START", lastHz)) ELSE <<>>
           /\ IF starts /\ writer = "W"
              THEN /\ loops' = [loops EXCEPT !.send = @ + 1]
                   /\ UNCHANGED <<reader, stream>>
              ELSE \* `continue`; or the write is refused: catch, finally
                   /\ loops' = next.loops
                   /\ reader' = next.reader
                   /\ stream' = next.stream
    /\ UNCHANGED <<port, writer, reading, wantRunning, lastHz, pcConn,
                   connFresh, pcDisc, cleanDisc, devOpen>>
    /\ OthersIdle

\* src/app.js:111-143: the device sends line v, a blocked read returns it and
\* the loop handles it, up to its next await
LoopLine(v) ==
    /\ loops.read > 0 /\ stream = "open" /\ devOpen
    /\ value' = v
    /\ alerted' = NoAlert
    /\ LET rest == [loops EXCEPT !.read = @ - 1]
           m == matchData(v)
           starts == ~isSkipped(v) /\ isMeta(v) /\ readyStarts(v, wantRunning)
           next == loopTop(rest, reader, stream, (~starts \/ writer = NULL) /\ reading)
       IN  /\ IF isSkipped(v)
              THEN UNCHANGED <<deviceReady, status, records, axes>>
              ELSE IF isMeta(v)
              THEN /\ deviceReady' = (deviceReady \/ startsWith(v, LineReady))
                   /\ status' = metaStatus(v, status)
                   /\ IF metaClears(v)
                      THEN /\ records' = clearDataAndAxes.records
                           /\ axes' = clearDataAndAxes.axes
                      ELSE UNCHANGED <<records, axes>>
              ELSE /\ UNCHANGED <<deviceReady, status>>
                   /\ IF m.ok
                      THEN /\ records' = pushPoint(records, axes, m.t, m.d).records
                           /\ axes' = pushPoint(records, axes, m.t, m.d).axes
                      ELSE UNCHANGED <<records, axes>>
           /\ out' = IF starts THEN sendLine(writer, CmdArg("START", lastHz)) ELSE <<>>
           /\ IF starts /\ writer = "W"
              THEN \* await writer.write(...): the loop waits for the device
                   /\ loops' = [rest EXCEPT !.send = @ + 1]
                   /\ UNCHANGED <<reader, stream>>
              ELSE \* `continue`; or the write is refused: catch, finally
                   /\ loops' = next.loops
                   /\ reader' = next.reader
                   /\ stream' = next.stream
    /\ UNCHANGED <<port, writer, reading, wantRunning, lastHz, pcConn,
                   connFresh, pcDisc, cleanDisc, devOpen>>
    /\ OthersIdle

\* the write of START settles: `continue`, or the catch block
LoopSendSettles(ok) ==
    /\ loops.send > 0
    /\ LET rest == [loops EXCEPT !.send = @ - 1]
           next == loopTop(rest, reader, stream, ok /\ reading)
       IN  /\ loops' = next.loops
           /\ reader' = next.reader
           /\ stream' = next.stream
    /\ out' = <<>>
    /\ value' = NONE
    /\ alerted' = NoAlert
    /\ UNCHANGED <<port, writer, reading, deviceReady, wantRunning, lastHz,
                   records, axes, status, pcConn, connFresh, pcDisc,
                   cleanDisc, devOpen>>
    /\ OthersIdle

\* src/app.js:148-149: the cancel of an open stream settles; reader = null
LoopCancelSettles ==
    /\ loops.fin > 0
    /\ loops' = [loops EXCEPT !.fin = @ - 1]
    /\ reader' = NULL
    /\ out' = <<>>
    /\ value' = NONE
    /\ alerted' = NoAlert
    /\ UNCHANGED <<port, writer, reading, deviceReady, wantRunning, lastHz,
                   records, axes, status, pcConn, connFresh, pcDisc,
                   cleanDisc, devOpen, stream>>
    /\ OthersIdle

\* the line stream fails (device unplugged, framing or overrun error):
\* src/app.js:145-150 logs to the hidden log and leaves
StreamError ==
    /\ stream = "open"
    /\ stream' = "errored"
    /\ loops' = streamEnds(loops, reader).loops
    /\ reader' = streamEnds(loops, reader).reader
    /\ out' = <<>>
    /\ value' = NONE
    /\ alerted' = NoAlert
    /\ UNCHANGED <<port, writer, reading, deviceReady, wantRunning, lastHz,
                   records, axes, status, pcConn, connFresh, pcDisc,
                   cleanDisc, devOpen>>
    /\ OthersIdle

-----------------------------------------------------------------------------
(* Connect, src/app.js:153-170 *)

NothingHeld == port = NULL /\ writer = NULL /\ loops = NoLoops /\ ~devOpen

ConnectClick ==
    /\ pcConn = "idle"
    /\ pcDisc = "idle"
    /\ pcConn' = "request"
    /\ connFresh' = NothingHeld
    /\ out' = <<>>
    /\ value' = NONE
    /\ alerted' = NoAlert
    /\ UNCHANGED <<port, reader, writer, reading, deviceReady, wantRunning,
                   lastHz, records, axes, status, loops, pcDisc, cleanDisc,
                   devOpen, stream>>
    /\ OthersIdle

\* requestPort() settles: the user picks the device, or declines and the
\* catch block alerts (src/app.js:167-169), which ends the handler
ConnectRequested(ok) ==
    /\ pcConn = "request"
    /\ port' = IF ok THEN "P" ELSE port
    /\ pcConn' = IF ok THEN "open" ELSE "idle"
    /\ alerted' = IF ok THEN NoAlert ELSE AlertConnectFailed
    /\ connFresh' = (connFresh /\ ok)
    /\ out' = <<>>
    /\ value' = NONE
    /\ UNCHANGED <<reader, writer, reading, deviceReady, wantRunning, lastHz,
                   records, axes, status, loops, pcDisc, cleanDisc, devOpen,
                   stream>>
    /\ OthersIdle

\* port.open() settles; it is refused when the device is open already
ConnectOpened(ok) ==
    /\ pcConn = "open"
    /\ ok => ~devOpen
    /\ devOpen' = (devOpen \/ ok)
    /\ pcConn' = IF ok THEN "signals" ELSE "idle"
    /\ alerted' = IF ok THEN NoAlert ELSE AlertConnectFailed
    /\ connFresh' = (connFresh /\ ok)
    /\ out' = <<>>
    /\ value' = NONE
    /\ UNCHANGED <<port, reader, writer, reading, deviceReady, wantRunning,
                   lastHz, records, axes, status, loops, pcDisc, cleanDisc,
                   stream>>
    /\ OthersIdle

\* setSignals() settles and getWriter() returns or throws (src/app.js:157-158);
\* then the session is set up, the read loop starts and blocks in its first
\* read, and HELP is written (src/app.js:161-166)
ConnectSetUp(signalsOk, writerOk) ==
    /\ pcConn = "signals"
    /\ IF signalsOk /\ writerOk
       THEN /\ LoopCount(loops) < MaxLoops
            /\ writer' = "W"
            /\ reading' = TRUE
            /\ deviceReady' = FALSE
            /\ wantRunning' = FALSE
            /\ records' = clearDataAndAxes.records
            /\ axes' = clearDataAndAxes.axes
            /\ status' = "CONNECTING"
            /\ reader' = "R"
            /\ stream' = "open"
            /\ loops' = [loops EXCEPT !.read = @ + 1]
            /\ out' = sendLine("W", Cmd("HELP"))
            /\ cleanDisc' = FALSE
            /\ pcConn' = "help"
            /\ alerted' = NoAlert
            /\ connFresh' = connFresh
       ELSE /\ pcConn' = "idle"
            /\ alerted' = AlertConnectFailed
            /\ connFresh' = FALSE
            /\ out' = <<>>
            /\ UNCHANGED <<writer, reading, deviceReady, wantRunning, records,
                           axes, status, reader, stream, loops, cleanDisc>>
    /\ value' = NONE
    /\ UNCHANGED <<port, lastHz, pcDisc, devOpen>>
    /\ OthersIdle

\* the write of HELP settles
ConnectHelpSettles(ok) ==
    /\ pcConn = "help"
    /\ pcConn' = "idle"
    /\ alerted' = IF ok THEN NoAlert ELSE AlertConnectFailed
    /\ connFresh' = FALSE
    /\ out' = <<>>
    /\ value' = NONE
    /\ UNCHANGED <<port, reader, writer, reading, deviceReady, wantRunning,
                   lastHz, records, axes, status, loops, pcDisc, cleanDisc,
                   devOpen, stream>>
    /\ OthersIdle

-----------------------------------------------------------------------------
(* Disconnect, src/app.js:172-180 *)

\* try { if (writer) { writer.releaseLock(); writer = null; } } catch {}
releaseWriter(w, ok) == IF w # NULL /\ ok THEN NULL ELSE w

\* the handler from the release of the writer on: it waits for close() of
\* an open port; with no port, or one that is not open (close() is refused
\* at once), it finishes in the same task
discRelease(relOk) ==
    /\ writer' = releaseWriter(writer, relOk)
    /\ IF port # NULL /\ devOpen
       THEN /\ pcDisc' = "close"
            /\ UNCHANGED <<port, status>>
       ELSE /\ pcDisc' = "idle"
            /\ port' = NULL
            /\ status' = "DISCONNECTED"

\* every read loop there is waits in a read of reader's open stream
loopBlockedInRead ==
    reader # NULL /\ stream = "open" /\ loops.read > 0
        /\ loops.send = 0 /\ loops.fin = 0

\* a faulty Disconnect that leaves the reader alone
cancelsReaderNever(rdr) == FALSE

\* whether Disconnect cancels the reader: `if (reader) await reader.cancel()`
cancelsReader(rdr) == rdr # NULL

\* a Disconnect that also empties the store and resets the axes
DisconnectClickClears(relOk) ==
    /\ pcDisc = "idle"
    /\ pcConn = "idle"
    /\ wantRunning' = FALSE
    /\ reading' = FALSE
    /\ cleanDisc' = loopBlockedInRead
    /\ out' = <<>>
    /\ IF cancelsReader(reader) /\ stream = "open"
       THEN \* await reader.cancel() of an open stream
            /\ stream' = "closed"
            /\ loops' = streamEnds(loops, reader).loops
            /\ reader' = streamEnds(loops, reader).reader
            /\ pcDisc' = "cancel"
            /\ UNCHANGED <<writer, port, status>>
       ELSE /\ discRelease(relOk)
            /\ UNCHANGED <<stream, loops, reader>>
    /\ value' = NONE
    /\ alerted' = NoAlert
    /\ records' = clearDataAndAxes.records
    /\ axes' = clearDataAndAxes.axes
    /\ UNCHANGED <<deviceReady, lastHz, pcConn, connFresh, devOpen>>
    /\ OthersIdle

DisconnectClick(relOk) ==
    /\ pcDisc = "idle"
    /\ pcConn = "idle"
    /\ wantRunning' = FALSE
    /\ reading' = FALSE
    /\ cleanDisc' = loopBlockedInRead
    /\ out' = <<>>
    /\ IF cancelsReader(reader) /\ stream = "open"
       THEN \* await reader.cancel() of an open stream
            /\ stream' = "closed"
            /\ loops' = streamEnds(loops, reader).loops
            /\ reader' = streamEnds(loops, reader).reader
            /\ pcDisc' = "cancel"
            /\ UNCHANGED <<writer, port, status>>
       ELSE /\ discRelease(relOk)
            /\ UNCHANGED <<stream, loops, reader>>
    /\ value' = NONE
    /\ alerted' = NoAlert
    /\ UNCHANGED <<deviceReady, lastHz, records, axes, pcConn, connFresh,
                   devOpen>>
    /\ OthersIdle

\* reader.cancel() settles, either way (src/app.js:175)
DisconnectCancelled(relOk) ==
    /\ pcDisc = "cancel"
    /\ discRelease(relOk)
    /\ out' = <<>>
    /\ value' = NONE
    /\ alerted' = NoAlert
    /\ UNCHANGED <<reader, reading, deviceReady, wantRunning, lastHz, records,
                   axes, loops, pcConn, connFresh, cleanDisc, devOpen,
                   stream>>
    /\ OthersIdle

\* port.close() settles (src/app.js:177-179).  A close that succeeds ends the
\* port's streams, after the write in flight has settled; a writer still held
\* belongs to a port that is gone.
DisconnectClosed(ok) ==
    /\ pcDisc = "close"
    /\ ok => devOpen
    /\ ok => loops.send = 0
    /\ devOpen' = (devOpen /\ ~ok)
    /\ IF ok
       THEN /\ writer' = IF writer = NULL THEN NULL ELSE "stale"
            /\ IF stream = "open"
               THEN /\ stream' = "closed"
                    /\ loops' = streamEnds(loops, reader).loops
                    /\ reader' = streamEnds(loops, reader).reader
               ELSE UNCHANGED <<stream, loops, reader>>
       ELSE UNCHANGED <<writer, stream, loops, reader>>
    /\ port' = NULL
    /\ status' = "DISCONNECTED"
    /\ pcDisc' = "idle"
    /\ out' = <<>>
    /\ value' = NONE
    /\ alerted' = NoAlert
    /\ UNCHANGED <<reading, deviceReady, wantRunning, lastHz, records, axes,
                   pcConn, connFresh, cleanDisc>>
    /\ OthersIdle

-----------------------------------------------------------------------------
(* Start, Stop, Reset, Cal: src/app.js:182-205 *)

\* a faulty Start that writes START at once, ready or not, as the legacy
\* revision does (src/unnamed/part_000:220-224)
StartClickEager(v) ==
    /\ IF port = NULL
       THEN /\ alerted' = AlertConnectFirst
            /\ out' = <<>>
            /\ UNCHANGED <<lastHz, wantRunning, status>>
       ELSE /\ alerted' = NoAlert
            /\ lastHz' = requestedHz(v)
            /\ wantRunning' = TRUE
            /\ out' = sendLine(writer, CmdArg("START", requestedHz(v)))
            /\ status' = status
    /\ value' = NONE
    /\ UNCHANGED <<port, reader, writer, reading, deviceReady, records, axes,
                   loops, pcConn, connFresh, pcDisc, cleanDisc, devOpen,
                   stream>>
    /\ OthersIdle

StartClick(v) ==
    /\ IF port = NULL
       THEN \* alert('先にConnectしてください'); return
            /\ alerted' = AlertConnectFirst
            /\ out' = <<>>
            /\ UNCHANGED <<lastHz, wantRunning, status>>
       ELSE /\ alerted' = NoAlert
            /\ lastHz' = requestedHz(v)
            /\ wantRunning' = TRUE
            /\ IF deviceReady
               THEN /\ out' = sendLine(writer, CmdArg("START", requestedHz(v)))
                    /\ status' = status
               ELSE /\ status' = "WAITING READY"
                    /\ out' = <<>>
    /\ value' = NONE
    /\ UNCHANGED <<port, reader, writer, reading, deviceReady, records, axes,
                   loops, pcConn, connFresh, pcDisc, cleanDisc, devOpen,
                   stream>>
    /\ OthersIdle

\* a faulty Stop that sends STOP and leaves the start intent recorded
StopClickKeepsIntent ==
    /\ wantRunning' = wantRunning
    /\ out' = sendLine(writer, Cmd("STOP"))
    /\ value' = NONE
    /\ alerted' = NoAlert
    /\ UNCHANGED <<port, reader, writer, reading, deviceReady, lastHz, records,
                   axes, status, loops, pcConn, connFresh, pcDisc, cleanDisc,
                   devOpen, stream>>
    /\ OthersIdle

StopClick ==
    /\ wantRunning' = FALSE
    /\ out' = sendLine(writer, Cmd("STOP"))
    /\ value' = NONE
    /\ alerted' = NoAlert
    /\ UNCHANGED <<port, reader, writer, reading, deviceReady, lastHz, records,
                   axes, status, loops, pcConn, connFresh, pcDisc, cleanDisc,
                   devOpen, stream>>
    /\ OthersIdle

ResetClick ==
    /\ wantRunning' = FALSE
    /\ records' = clearDataAndAxes.records
    /\ axes' = clearDataAndAxes.axes
    /\ out' = sendLine(writer, Cmd("RESET"))
    /\ value' = NONE
    /\ alerted' = NoAlert
    /\ UNCHANGED <<port, reader, writer, reading, deviceReady, lastHz, status,
                   loops, pcConn, connFresh, pcDisc, cleanDisc, devOpen,
                   stream>>
    /\ OthersIdle

CalClick(v) ==
    /\ out' = IF port = NULL THEN <<>>
              ELSE sendLine(writer, CmdArg("CAL", requestedCm(v)))
    /\ alerted' = IF port = NULL THEN AlertConnectFirst ELSE NoAlert
    /\ value' = NONE
    /\ UNCHANGED <<port, reader, writer, reading, deviceReady, wantRunning,
                   lastHz, records, axes, status, loops, pcConn, connFresh,
                   pcDisc, cleanDisc, devOpen, stream>>
    /\ OthersIdle

Next ==
    \/ \E v \in Lines : LoopLine(v)
    \/ \E ok \in BOOLEAN : LoopSendSettles(ok)
    \/ LoopCancelSettles
    \/ StreamError
    \/ ConnectClick
    \/ \E ok \in BOOLEAN : ConnectRequested(ok)
    \/ \E ok \in BOOLEAN : ConnectOpened(ok)
    \/ \E signalsOk, writerOk \in BOOLEAN : ConnectSetUp(signalsOk, writerOk)
    \/ \E ok \in BOOLEAN : ConnectHelpSettles(ok)
    \/ \E relOk \in BOOLEAN : DisconnectClick(relOk)
    \/ \E relOk \in BOOLEAN : DisconnectCancelled(relOk)
    \/ \E ok \in BOOLEAN : DisconnectClosed(ok)
    \/ \E v \in HzInputs : StartClick(v)
    \/ StopClick
    \/ ResetClick
    \/ \E v \in CmInputs : CalClick(v)

Spec == Init /\ [][Next]_vars


-----------------------------------------------------------------------------
(* The line framers, src/app.js:57-66 and src/unnamed/part_000:168-182 *)

\* the characters of the fed text: a letter and the two line-end characters
TextChars == {"a", "\r", "\n"}

RECURSIVE Texts(_)
Texts(n) ==
    IF n = 0 THEN {<<>>}
    ELSE LET shorter == Texts(n - 1)
         IN  shorter \cup {Append(t, c) : t \in {u \in shorter : Len(u) = n - 1},
                                          c \in TextChars}

\* String.prototype.split(/\r?\n/) of piece + s, where piece holds no match:
\* the regular expression is tried at each position from the left
RECURSIVE split(_, _)
split(s, piece) ==
    IF s = <<>> THEN <<piece>>
    ELSE IF Len(s) >= 2 /\ s[1] = "\r" /\ s[2] = "\n"
    THEN <<piece>> \o split(SubSeq(s, 3, Len(s)), <<>>)
    ELSE IF s[1] = "\n"
    THEN <<piece>> \o split(Tail(s), <<>>)
    ELSE split(Tail(s), Append(piece, s[1]))

\* a faulty transform that splits the chunk alone and forgets this.chunks
transformChunkOnly(chunks, chunk) ==
    LET lines == split(chunk, <<>>)
    IN  [chunks |-> lines[Len(lines)], out |-> SubSeq(lines, 1, Len(lines) - 1)]

\* LineBreakTransformer.transform (src/app.js:59-64): the new this.chunks and
\* the lines enqueued
transform(chunks, chunk) ==
    LET lines == split(chunks \o chunk, <<>>)
    IN  [chunks |-> lines[Len(lines)], out |-> SubSeq(lines, 1, Len(lines) - 1)]

\* LineBreakTransformer.flush (src/app.js:65)
flush(chunks) == IF chunks # <<>> THEN <<chunks>> ELSE <<>>

\* buf.indexOf('\n'), 1-based; 0 when there is none
RECURSIVE indexOfNewline(_, _)
indexOfNewline(buf, i) ==
    IF i > Len(buf) THEN 0
    ELSE IF buf[i] = "\n" THEN i
    ELSE indexOfNewline(buf, i + 1)

\* line.replace(/\r$/, '')
stripCR(line) ==
    IF line # <<>> /\ line[Len(line)] = "\r"
    THEN SubSeq(line, 1, Len(line) - 1)
    ELSE line

\* src/unnamed/part_000:174-181: buf += value, then every complete line is
\* cut off the front of buf and handed to parseLine
RECURSIVE drainLegacy(_, _)
drainLegacy(buf, lines) ==
    LET idx == indexOfNewline(buf, 1)
    IN  IF idx = 0 THEN [buf |-> buf, out |-> lines]
        ELSE drainLegacy(SubSeq(buf, idx + 1, Len(buf)),
                         Append(lines, stripCR(SubSeq(buf, 1, idx - 1))))

InitFramer ==
    /\ SessionInit /\ TVarsIdle /\ LVarsIdle
    /\ fInput \in Texts(MaxText)
    /\ fPos = 0 /\ fChunks = <<>> /\ fClosed = FALSE
    /\ fEmitted = <<>> /\ fBuf = <<>>
    /\ fEmittedLegacy = <<>> /\ fBufLegacy = <<>>

\* the next n characters arrive as one chunk and both framers take it
FramerFeed(n) ==
    /\ ~fClosed
    /\ fPos + n <= Len(fInput)
    /\ LET chunk == SubSeq(fInput, fPos + 1, fPos + n)
           a == transform(fBuf, chunk)
           d == drainLegacy(fBufLegacy \o chunk, <<>>)
       IN  /\ fChunks' = Append(fChunks, chunk)
           /\ fEmitted' = fEmitted \o a.out
           /\ fBuf' = a.chunks
           /\ fEmittedLegacy' = fEmittedLegacy \o d.out
           /\ fBufLegacy' = d.buf
    /\ fPos' = fPos + n
    /\ UNCHANGED <<fInput, fClosed, svars, tvars, lvars>>

\* the stream closes after the whole text: src/app.js flushes this.chunks, the
\* legacy loop leaves on `done` and buf is dropped
FramerClose ==
    /\ ~fClosed
    /\ fPos = Len(fInput)
    /\ fClosed' = TRUE
    /\ fEmitted' = fEmitted \o flush(fBuf)
    /\ fBuf' = <<>>
    /\ UNCHANGED <<fInput, fPos, fChunks, fEmittedLegacy, fBufLegacy, svars,
                   tvars, lvars>>

NextFramer ==
    \/ \E n \in 1..MaxText : FramerFeed(n)
    \/ FramerClose

SpecFramer == InitFramer /\ [][NextFramer]_vars

-----------------------------------------------------------------------------
(* The record stores, src/app.js:86-103 and src/unnamed/part_000:113-126 *)

\* the samples that are appended: <<time in ms, distance in mm>>
StoreSamples ==
    {<<0, 0>>, <<20, 7>>, <<1000, 500>>, <<10000, 7>>, <<12000, 2503>>,
     <<25000, 500>>}

\* the default of the parameter stepCandidates
stepCandidates == <<100, 200, 250, 500, 1000, 2000, 5000>>

\* the for loop from the i-th step on, and the statements after it
RECURSIVE niceCeilFrom(_, _)
niceCeilFrom(v, i) ==
    IF i > Len(stepCandidates)
    THEN LET last == stepCandidates[Len(stepCandidates)]
         IN  CeilDiv(v, last) * last
    ELSE LET step == stepCandidates[i]
             n == CeilDiv(v, step) * step
         IN  IF n >= v THEN n ELSE niceCeilFrom(v, i + 1)

niceCeil(v) == niceCeilFrom(v, 1)

\* ensureAxes(t, mm), src/unnamed/part_000:95-111, for t >= 0
ensureAxes(ax, t, mm) ==
    [xMin |-> ax.xMin,
     xMax |-> IF t > ax.xMax THEN CeilDiv(t, INITIAL_X_SPAN) * INITIAL_X_SPAN
              ELSE ax.xMax,
     yMax |-> IF mm > ax.yMax THEN niceCeil(mm) ELSE ax.yMax]

\* records.push({ t, mm }); if (records.length > 5000)
\*     records.splice(0, records.length - 5000)
addRecord(recs, t, mm) ==
    LET pushed == Append(recs, [t |-> t, mm |-> mm])
    IN  IF Len(pushed) > LEGACY_MAX
        THEN SubSeq(pushed, Len(pushed) - LEGACY_MAX + 1, Len(pushed))
        ELSE pushed

\* `${n}` of a non-negative integer below 10^21: its decimal digits
DigitChar(d) ==
    CASE d = 0 -> "0" [] d = 1 -> "1" [] d = 2 -> "2" [] d = 3 -> "3"
      [] d = 4 -> "4" [] d = 5 -> "5" [] d = 6 -> "6" [] d = 7 -> "7"
      [] d = 8 -> "8" [] d = 9 -> "9"

RECURSIVE numberToString(_)
numberToString(n) ==
    IF n < 10 THEN <<DigitChar(n)>>
    ELSE Append(numberToString(n \div 10), DigitChar(n % 10))

\* Array.prototype.join(sep) of an array of strings
RECURSIVE join(_, _)
join(strs, sep) ==
    IF strs = <<>> THEN <<>>
    ELSE IF Len(strs) = 1 THEN strs[1]
    ELSE strs[1] \o sep \o join(Tail(strs), sep)

\* a faulty export: the header without its '\n'
toCSVNoNewline(rows) ==
    <<"t", "_", "m", "s", ",", "d", "i", "s", "t", "_", "m", "m">>
        \o join([i \in 1..Len(rows) |->
                    numberToString(rows[i].tMs) \o <<",">>
                        \o numberToString(rows[i].distMm)], <<"\n">>)

\* toCSV of src/app.js:51-54
toCSV(rows) ==
    <<"t", "_", "m", "s", ",", "d", "i", "s", "t", "_", "m", "m", "\n">>
        \o join([i \in 1..Len(rows) |->
                    numberToString(rows[i].tMs) \o <<",">>
                        \o numberToString(rows[i].distMm)], <<"\n">>)

\* toCSV of src/unnamed/part_000:139-143
toCSVLegacy(list) ==
    join(<< <<"t", "i", "m", "e", "_", "m", "s", ",",
              "d", "i", "s", "t", "a", "n", "c", "e", "_", "m", "m">> >>
             \o [i \in 1..Len(list) |->
                    numberToString(list[i].t) \o <<",">>
                        \o numberToString(list[i].mm)],
         <<"\n">>)

InitStore ==
    /\ SessionInit /\ FVarsIdle /\ LVarsIdle
    /\ sRecords = <<>> /\ sLegacy = <<>> /\ sHistory = <<>>
    /\ sCsv = NONE /\ sCsvLegacy = NONE /\ sLine = NONE
    /\ sAxes = InitAxes /\ sAxesLegacy = InitAxesLegacy
    /\ ceilIn = 0 /\ ceilOut = 0

\* pushPoint(t, d) of src/app.js and addRecord(t, d) of the legacy revision
StoreAppend(sample) ==
    /\ Len(sHistory) < MaxAppends
    /\ sRecords' = pushPoint(sRecords, sAxes, sample[1], sample[2]).records
    /\ sAxes' = pushPoint(sRecords, sAxes, sample[1], sample[2]).axes
    /\ sLegacy' = addRecord(sLegacy, sample[1], sample[2])
    /\ sAxesLegacy' = ensureAxes(sAxesLegacy, sample[1], sample[2])
    /\ sHistory' = Append(sHistory, sample)
    /\ sCsv' = NONE /\ sCsvLegacy' = NONE
    /\ UNCHANGED <<sLine, ceilIn, ceilOut, svars, fvars, lvars>>

\* clearDataAndAxes (src/app.js:96-103), the Clear button
\* (src/unnamed/part_000:255-265)
StoreClear ==
    /\ sRecords' = clearDataAndAxes.records
    /\ sAxes' = clearDataAndAxes.axes
    /\ sLegacy' = <<>>
    /\ sAxesLegacy' = InitAxesLegacy
    /\ sHistory' = <<>>
    /\ sCsv' = NONE /\ sCsvLegacy' = NONE
    /\ UNCHANGED <<sLine, ceilIn, ceilOut, svars, fvars, lvars>>

\* the CSV button (src/app.js:207-218, src/unnamed/part_000:242-253): the
\* text handed to the download is toCSV(records)
StoreExport ==
    /\ sCsv' = toCSV(sRecords)
    /\ sCsvLegacy' = toCSVLegacy(sLegacy)
    /\ UNCHANGED <<sRecords, sLegacy, sHistory, sLine, sAxes, sAxesLegacy, ceilIn,
                   ceilOut, svars, fvars, lvars>>

NextStore ==
    \/ \E sample \in StoreSamples : StoreAppend(sample)
    \/ StoreClear
    \/ StoreExport

SpecStore == InitStore /\ [][NextStore]_vars

-----------------------------------------------------------------------------
(* Properties of the session (Spec) *)

\* C1, as the specification words it: when '# READY' is read while the user's
\* start intent is recorded, exactly one START with the recorded rate is
\* written and the session shows Running.
C1_ReadyStartsAndRuns ==
    [][value' = LineReady /\ wantRunning
          => out' = <<CmdArg("START", lastHz)>> /\ status' = "RUNNING"]_vars

\* C1, as the code has it: when '# READY' is read while the start intent is
\* recorded and the writer is held, exactly one START with the recorded rate is
\* written, the device counts as ready and the page shows READY; RUNNING is
\* shown only when the device answers '# START'.
C1_ReadyStartsOnce ==
    [][value' = LineReady /\ wantRunning /\ writer = "W"
          => /\ out' = <<CmdArg("START", lastHz)>>
             /\ deviceReady'
             /\ status' = "READY"]_vars

\* '# READY' was read with the intent recorded for a rate other than the
\* default: one START with that rate went out and the page shows READY
C1_Witness ==
    /\ value = LineReady /\ wantRunning /\ lastHz # DEFAULT_HZ
    /\ out = <<CmdArg("START", lastHz)>>
    /\ status = "READY"

C5_FailedConnectHoldsNothing ==
    [][connFresh /\ alerted' = AlertConnectFailed
          => port' = NULL /\ writer' = NULL /\ loops' = NoLoops]_vars

\* C6: when the line stream fails while the page shows RUNNING, the page
\* shows STOPPED afterwards.
C6_ErrorWhileRunningStops ==
    [][stream = "open" /\ stream' = "errored" /\ status = "RUNNING"
          => status' = "STOPPED"]_vars

\* C7: when the Disconnect handler has waited for the cancel or the close and
\* runs to its end, neither the port nor the writer is held.
C7_DisconnectReleasesAll ==
    [][pcDisc # "idle" /\ pcDisc' = "idle"
          => port' = NULL /\ writer' = NULL]_vars

\* C8: every START or RATE line written carries a rate from 1 to 50.
C8_HzInRange ==
    \A i \in 1..Len(out) :
        out[i].cmd \in {"START", "RATE"} => out[i].arg >= 1 /\ out[i].arg <= 50

\* C9: when '# RESET' is read while the page shows RUNNING, the store is
\* emptied and the page shows READY.
C9_ResetWhileRunning ==
    [][value' = LineReset /\ status = "RUNNING"
          => records' = <<>> /\ status' = "READY"]_vars

\* '# RESET' was read in a session that was started at a rate the user
\* chose: the store is empty and the page shows READY
C9_Witness ==
    /\ value = LineReset /\ status = "READY" /\ records = <<>>
    /\ deviceReady /\ wantRunning /\ lastHz # DEFAULT_HZ /\ loops.read = 1

\* C10, as the specification words it: yMax never decreases from one step to
\* the next.
C10_YMaxNeverDecreases == [][axes'.yMax >= axes.yMax]_vars

\* C10, as the code has it: yMax never decreases from one step to the next,
\* except in a step that clears the store, which puts the axes back to their
\* initial bounds.
C10_YMaxDecreasesOnlyOnClear ==
    [][axes'.yMax >= axes.yMax \/ (records' = <<>> /\ axes' = InitAxes)]_vars

\* a small sample was read after a large one had raised yMax, and yMax stayed
C10_Witness ==
    /\ value = LineSmall /\ axes.yMax > Y_INIT_MAX_CM
    /\ Len(records) = MAX_POINTS /\ records[Len(records)].distMm = 500

-----------------------------------------------------------------------------
(* Properties of the stores (SpecStore) and of the framers (SpecFramer) *)

\* the last n elements of seq
LastOf(seq, n) == SubSeq(seq, Len(seq) - Min(n, Len(seq)) + 1, Len(seq))

\* C3: after any sequence of appends the store holds at most its capacity,
\* and it holds exactly the last `capacity` samples appended, in the order
\* they arrived; the same for the store of the legacy revision.
C3_StoreKeepsLast ==
    LET kept == LastOf(sHistory, MAX_POINTS)
        keptLegacy == LastOf(sHistory, LEGACY_MAX)
    IN  /\ Len(sRecords) <= MAX_POINTS
        /\ Len(sRecords) = Len(kept)
        /\ \A i \in 1..Len(kept) :
               sRecords[i] = [tMs |-> kept[i][1], distMm |-> kept[i][2]]
        /\ Len(sLegacy) <= LEGACY_MAX
        /\ Len(sLegacy) = Len(keptLegacy)
        /\ \A i \in 1..Len(keptLegacy) :
               sLegacy[i] = [t |-> keptLegacy[i][1], mm |-> keptLegacy[i][2]]

\* as many appends as the model allows, starting with a sample that differs
\* from the later ones: the first samples are gone and the store is full
C3_Witness ==
    /\ Len(sHistory) = MaxAppends /\ MaxAppends > MAX_POINTS
    /\ sHistory[1] # sHistory[Len(sHistory)]
    /\ sHistory[Len(sHistory) - 1] # sHistory[Len(sHistory)]
    /\ Len(sRecords) = MAX_POINTS
    /\ sRecords[Len(sRecords)].tMs = sHistory[Len(sHistory)][1]

\* C4: however the text is split into chunks, each framer has emitted the
\* lines, and holds the partial line, that it has after taking the same
\* characters as a single chunk; at the close of the stream src/app.js adds
\* what flush emits for that partial line.
C4_FramerIgnoresChunking ==
    LET fed == SubSeq(fInput, 1, fPos)
        whole == transform(<<>>, fed)
        wholeLegacy == drainLegacy(fed, <<>>)
    IN  /\ ~fClosed => fEmitted = whole.out /\ fBuf = whole.chunks
        /\ fClosed => fEmitted = whole.out \o flush(whole.chunks)
        /\ fEmittedLegacy = wholeLegacy.out
        /\ fBufLegacy = wholeLegacy.buf

\* two terminated lines fed with a split between "\r" and "\n" and a split
\* exactly at the line boundary
C4_Witness ==
    /\ fInput = <<"a", "\r", "\n", "a", "\n">>
    /\ fChunks = << <<"a", "\r">>, <<"\n">>, <<"a", "\n">> >>
    /\ fEmitted = << <<"a">>, <<"a">> >>
    /\ fEmittedLegacy = << <<"a">>, <<"a">> >>
    /\ fBuf = <<>> /\ fBufLegacy = <<>>


-----------------------------------------------------------------------------
(* Properties of the commands (Spec) *)

\* the lines just written include a START
startWritten(lines) == \E i \in 1..Len(lines) : lines[i].cmd = "START"

C12_StopStopsAtOnce ==
    [][StopClick
          => /\ ~wantRunning'
             /\ status' = "STOPPED"
             /\ (out' = <<Cmd("STOP")>>) <=> devOpen]_vars

\* C12, as the code has it: a Stop click clears the start intent, leaves the
\* status as it is, and writes STOP exactly when the writer is held, which
\* implies that the transport is open; STOPPED is shown when the device
\* answers '# STOP'.
C12_StopClearsIntent ==
    [][/\ StopClick
          => /\ ~wantRunning'
             /\ status' = status
             /\ out' = (IF writer = "W" THEN <<Cmd("STOP")>> ELSE <<>>)
             /\ out' # <<>> => devOpen
       /\ value' = LineStop => status' = "STOPPED"]_vars

\* Stop was clicked in a running session: STOP was written, the intent is
\* cleared and the page still shows RUNNING
C12_Witness ==
    /\ out = <<Cmd("STOP")>> /\ ~wantRunning /\ status = "RUNNING"
    /\ writer = "W" /\ devOpen /\ deviceReady


-----------------------------------------------------------------------------
(* Further properties of the framers (SpecFramer) *)

\* the line ends with a carriage return
endsWithCR(line) == line # <<>> /\ line[Len(line)] = "\r"

\* C13: no line that a framer has emitted, from a chunk or at the close of
\* the stream, ends with a carriage return.
C13_NoTrailingCR ==
    /\ \A i \in 1..Len(fEmitted) : ~endsWithCR(fEmitted[i])
    /\ \A i \in 1..Len(fEmittedLegacy) : ~endsWithCR(fEmittedLegacy[i])


-----------------------------------------------------------------------------
(* Further properties of the stores (SpecStore) *)

\* the lines of a text: pieces between '\n', a final '\n' ending the last
\* line and not starting another
RECURSIVE textLines(_, _)
textLines(text, piece) ==
    IF text = <<>> THEN (IF piece = <<>> THEN <<>> ELSE <<piece>>)
    ELSE IF text[1] = "\n" THEN <<piece>> \o textLines(Tail(text), <<>>)
    ELSE textLines(Tail(text), Append(piece, text[1]))

\* a row read as two integers: digits, a comma, digits, and nothing else
csvRow(row) ==
    LET a == SkipWhile(row, 1, Digits)
        b == SkipWhile(row, a + 1, Digits)
    IN  IF a > 1 /\ a <= Len(row) /\ row[a] = "," /\ b > a + 1 /\ b = Len(row) + 1
        THEN <<NumberOf(SubSeq(row, 1, a - 1)), NumberOf(SubSeq(row, a + 1, Len(row)))>>
        ELSE <<-1, -1>>

\* the header line dropped, each row read as two integers
parseCSV(text) ==
    LET rows == Tail(textLines(text, <<>>))
    IN  [i \in 1..Len(rows) |-> csvRow(rows[i])]

\* C14: the CSV button leaves the store as it is, and the text it exports,
\* read back (header dropped, each row as two integers), is the store's
\* sequence of samples in the same order; for both revisions.
C14_ExportRoundTrip ==
    [][StoreExport
          => /\ sRecords' = sRecords /\ sLegacy' = sLegacy
             /\ Len(parseCSV(sCsv')) = Len(sRecords)
             /\ \A i \in 1..Len(sRecords) :
                    parseCSV(sCsv')[i] = <<sRecords[i].tMs, sRecords[i].distMm>>
             /\ Len(parseCSV(sCsvLegacy')) = Len(sLegacy)
             /\ \A i \in 1..Len(sLegacy) :
                    parseCSV(sCsvLegacy')[i] = <<sLegacy[i].t, sLegacy[i].mm>>]_vars

\* a full store of two different samples, one of them all zero, exported
C14_Witness ==
    /\ sCsv # NONE /\ Len(sRecords) = MAX_POINTS
    /\ sRecords[1].tMs = 0 /\ sRecords[1].distMm = 0
    /\ sRecords[Len(sRecords)].tMs = 12000
    /\ sCsvLegacy # NONE /\ Len(sLegacy) = LEGACY_MAX


-----------------------------------------------------------------------------
(* The read loop on arbitrary lines (SpecClassify): one line, drawn from    *)
(* every text of a few characters, is read in a running session.           *)

\* characters the lines are made of: digits, the separator, a blank, a sign,
\* the meta prefix and a letter
LineChars == {"0", "7", ",", " ", "-", "#", "x"}

RECURSIVE TextsOver(_, _)
TextsOver(chars, n) ==
    IF n = 0 THEN {<<>>}
    ELSE LET shorter == TextsOver(chars, n - 1)
         IN  shorter \cup {Append(t, c) : t \in {u \in shorter : Len(u) = n - 1},
                                          c \in chars}

\* "1000,523"
Line1000_523 == <<"1", "0", "0", "0", ",", "5", "2", "3">>

ClassifyLines ==
    TextsOver(LineChars, MaxLine)
        \cup Lines \cup {LineOffset, LineOtherMeta, LineEmpty, Line1000_523}

\* the stores the line finds: empty, partly filled, full
ClassifyStores ==
    {[i \in 1..n |-> [tMs |-> 1000, distMm |-> 500]] : n \in 0..MAX_POINTS}

\* the same for the store of the legacy revision
LegacyStores ==
    {[i \in 1..n |-> [t |-> 1000, mm |-> 500]] : n \in 0..LEGACY_MAX}

\* Math.round(performance.now() - t0) when the line is handled
LegacyClock == {0, 20}

\* String.prototype.trim
trim(s) ==
    LET first == SkipWhile(s, 1, Whitespace)
        last == CHOOSE l \in 0..Len(s) :
                    /\ l = 0 \/ s[l] \notin Whitespace
                    /\ \A p \in (l + 1)..Len(s) : s[p] \in Whitespace
    IN  IF first > last THEN <<>> ELSE SubSeq(s, first, last)

RECURSIVE hexNumberOf(_)
hexNumberOf(s) ==
    IF s = <<>> THEN 0
    ELSE 16 * hexNumberOf(SubSeq(s, 1, Len(s) - 1)) + DigitVal(s[Len(s)])

allDigits(s) == s # <<>> /\ \A p \in 1..Len(s) : s[p] \in Digits

\* Number(string) on the characters of LineChars and the sign '+': the empty
\* and the blank string are 0, a signed run of decimal digits is its value,
\* an unsigned "0x" followed by digits is read in base 16, anything else is
\* NaN (finite |-> FALSE)
stringToNumber(str) ==
    LET s == trim(str)
        signed == s # <<>> /\ s[1] \in {"-", "+"}
        body == IF signed THEN Tail(s) ELSE s
    IN  IF s = <<>> THEN [finite |-> TRUE, val |-> 0]
        ELSE IF allDigits(body)
        THEN [finite |-> TRUE,
              val |-> IF s[1] = "-" THEN 0 - NumberOf(body) ELSE NumberOf(body)]
        ELSE IF ~signed /\ startsWith(s, <<"0", "x">>) /\ allDigits(SubSeq(s, 3, Len(s)))
        THEN [finite |-> TRUE, val |-> hexNumberOf(SubSeq(s, 3, Len(s)))]
        ELSE [finite |-> FALSE, val |-> 0]

\* src/unnamed/part_000:145-156
parseLine(line, now, list, ax) ==
    IF line = <<>> THEN [records |-> list, axes |-> ax]
    ELSE IF startsWith(line, <<"#">>) THEN [records |-> list, axes |-> ax]
    ELSE LET v == stringToNumber(trim(line))
         IN  IF v.finite
             THEN [records |-> addRecord(list, now, v.val),
                   axes |-> ensureAxes(ax, now, v.val)]
             ELSE [records |-> list, axes |-> ax]

\* a session that is connected and running, its read loop blocked in
\* reader.read()
InitClassify ==
    /\ port = "P" /\ reader = "R" /\ writer = "W"
    /\ reading = TRUE /\ deviceReady = TRUE /\ wantRunning = TRUE
    /\ lastHz = DEFAULT_HZ
    /\ records \in ClassifyStores /\ axes = InitAxes
    /\ status = "RUNNING"
    /\ loops = [read |-> 1, send |-> 0, fin |-> 0]
    /\ pcConn = "idle" /\ connFresh = FALSE
    /\ pcDisc = "idle" /\ cleanDisc = FALSE
    /\ devOpen = TRUE /\ stream = "open" /\ value = NONE
    /\ out = <<>> /\ alerted = NoAlert
    /\ FVarsIdle /\ LVarsIdle
    /\ sRecords = <<>> /\ sHistory = <<>>
    /\ sCsv = NONE /\ sCsvLegacy = NONE /\ sLine = NONE
    /\ sAxes = InitAxes /\ sAxesLegacy = InitAxesLegacy
    /\ ceilIn = 0 /\ ceilOut = 0
    /\ sLegacy \in LegacyStores
    \* both stores empty, both partly filled or both full
    /\ (records = <<>>) <=> (sLegacy = <<>>)
    /\ (Len(records) = MAX_POINTS) <=> (Len(sLegacy) = LEGACY_MAX)

\* the first line of the behaviour is read and handled by src/app.js
ClassifyLine ==
    /\ value = NONE /\ sLine = NONE
    /\ \E v \in ClassifyLines : LoopLine(v)

\* src/unnamed/part_000:173-177: the legacy revision cuts line v from its
\* buffer and hands it to parseLine, `now` milliseconds after startReading
LegacyParse(v, now) ==
    /\ sLine' = v
    /\ sLegacy' = parseLine(v, now, sLegacy, sAxesLegacy).records
    /\ sAxesLegacy' = parseLine(v, now, sLegacy, sAxesLegacy).axes
    /\ UNCHANGED <<sRecords, sHistory, sCsv, sCsvLegacy, sAxes, ceilIn, ceilOut,
                   svars, fvars, lvars>>

\* the first line of the behaviour is read and handled by the legacy revision
LegacyLine ==
    /\ value = NONE /\ sLine = NONE
    /\ \E v \in ClassifyLines, now \in LegacyClock : LegacyParse(v, now)

NextClassify == ClassifyLine \/ LegacyLine

SpecClassify == InitClassify /\ [][NextClassify]_vars


-----------------------------------------------------------------------------
(* Properties of the line classification (SpecClassify) *)

\* the fields <<t, d>> of a line that begins with digits, blanks, a comma,
\* blanks, digits: i, j, k, l are the ends of the four runs, the last run
\* taken as long as it goes
dataFields(v) ==
    {<<NumberOf(SubSeq(v, 1, i)), NumberOf(SubSeq(v, k + 1, l))>> :
        <<i, j, k, l>> \in
            {q \in (1..Len(v)) \X (1..Len(v)) \X (1..Len(v)) \X (1..Len(v)) :
                /\ q[1] <= q[2] /\ q[2] + 1 <= q[3] /\ q[3] < q[4]
                /\ \A p \in 1..q[1] : v[p] \in Digits
                /\ \A p \in (q[1] + 1)..q[2] : v[p] \in Whitespace
                /\ v[q[2] + 1] = ","
                /\ \A p \in (q[2] + 2)..q[3] : v[p] \in Whitespace
                /\ \A p \in (q[3] + 1)..q[4] : v[p] \in Digits
                /\ q[4] < Len(v) => v[q[4] + 1] \notin Digits}}

\* C15: a line that begins with digits, optional blanks, a comma, optional
\* blanks and digits appends exactly one record, made of the two numbers, to
\* the store (the oldest record leaves a full store); "1000,523" appends
\* {1000, 523}; a line that is not boot noise, does not begin with '#' and
\* does not begin with that pattern leaves the store as it was.
C15_DataLineAppendsOne ==
    [][LET v == value'
       IN  (value = NONE /\ v # NONE /\ LoopLine(v))
              => /\ \A f \in dataFields(v) :
                        records' = LastOf(Append(records, [tMs |-> f[1], distMm |-> f[2]]),
                                          MAX_POINTS)
                 /\ (dataFields(v) = {} /\ ~isSkipped(v) /\ ~isMeta(v))
                        => records' = records
                 /\ v = Line1000_523
                        => records'[Len(records')] = [tMs |-> 1000, distMm |-> 523]]_vars

C15_Witness ==
    /\ value = Line1000_523
    /\ Len(records) = MAX_POINTS
    /\ records[Len(records)] = [tMs |-> 1000, distMm |-> 523]
    /\ records[1] = [tMs |-> 1000, distMm |-> 500]


\* C16: every record of the store of src/app.js and of the store of the
\* legacy revision has a non-negative time and a non-negative distance,
\* whatever line was read; and the legacy revision appends a record only for
\* a line that is one run of decimal digits.
C16_SamplesNonNegative ==
    /\ [](/\ \A i \in 1..Len(records) :
                 records[i].tMs \in Nat /\ records[i].distMm \in Nat
          /\ \A i \in 1..Len(sLegacy) :
                 sLegacy[i].t \in Nat /\ sLegacy[i].mm \in Nat)
    /\ [][LET v == sLine'
           IN  (/\ v # NONE /\ sLegacy' # sLegacy
                /\ \E now \in LegacyClock : LegacyParse(v, now)) => allDigits(v)]_vars

\* the half of C16 that is about src/app.js, alone
C16_AppSamplesNonNegative ==
    \A i \in 1..Len(records) : records[i].tMs \in Nat /\ records[i].distMm \in Nat


-----------------------------------------------------------------------------
(* Further properties of the commands (Spec) *)

\* C17: a command (Start, Stop, Reset, Calibrate) issued while no writer is
\* held writes nothing, raises nothing, and leaves the session state and the
\* recorded samples as they were.
C17_CommandWithoutWriterIsNoOp ==
    [][(/\ writer = NULL
        /\ \/ StopClick
           \/ ResetClick
           \/ \E v \in HzInputs : StartClick(v)
           \/ \E v \in CmInputs : CalClick(v))
          => /\ out' = <<>>
             /\ UNCHANGED <<port, reader, writer, reading, deviceReady,
                            wantRunning, lastHz, status, records, axes>>]_vars


\* C18: lines are handled one at a time, in the order they arrive.  There is
\* never more than one read loop, and it is either blocked in read() or
\* awaiting its START write; a line is handled only when no write of an
\* earlier line is pending; a data line puts its record at the end of the
\* store, and the store changes in no other way than that or by being emptied.
C18_OneLineAtATime ==
    [][/\ loops.read + loops.send <= 1
       /\ LET v == value'
          IN  (v # NONE /\ LoopLine(v))
                 => /\ loops.send = 0 /\ loops.read = 1
                    /\ out' # <<>> => loops'.read = 0 /\ loops'.send = 1
                    /\ (~isSkipped(v) /\ ~isMeta(v) /\ matchData(v).ok)
                           => records' = LastOf(Append(records,
                                                       [tMs |-> matchData(v).t,
                                                        distMm |-> matchData(v).d]),
                                                MAX_POINTS)
       /\ records' # records
              => \/ records' = <<>>
                 \/ /\ value' # NONE /\ matchData(value').ok
                    /\ SubSeq(records', 1, Len(records') - 1)
                           = LastOf(records, Len(records') - 1)]_vars

\* two data lines handled after the START that answered '# READY' was
\* written and echoed: the store holds them in the order they arrived
C18_Witness ==
    /\ value = LineBig /\ status = "RUNNING" /\ wantRunning /\ deviceReady
    /\ records = <<[tMs |-> 1000, distMm |-> 500], [tMs |-> 12000, distMm |-> 2503]>>
    /\ loops.read = 1 /\ loops.send = 0


malformed(v) == ~isSkipped(v) /\ ~isMeta(v) /\ dataFields(v) = {}

\* the same for the legacy format, whose data lines are one run of digits
malformedLegacy(v) == v # <<>> /\ ~startsWith(v, <<"#">>) /\ ~allDigits(v)

\* the half of C20 that is about src/app.js: a boot-noise line or a malformed
\* line changes nothing of the session, the store or the axes, writes
\* nothing, and leaves the loop blocked in the next read of the open stream
C20_AppBadLineIgnored ==
    [][LET v == value'
       IN  (/\ v # NONE /\ LoopLine(v)
            /\ startsWith(v, LineBoot) \/ malformed(v))
              => /\ UNCHANGED <<port, reader, writer, reading, deviceReady,
                                wantRunning, lastHz, status, records, axes,
                                loops, stream, devOpen>>
                 /\ out' = <<>>
                 /\ loops'.read > 0 /\ stream' = "open" /\ devOpen']_vars

\* C20: a boot-noise line or a malformed data line changes nothing of the
\* session, the store or the axes, writes nothing, and leaves the read loop
\* reading; in the legacy revision such a line leaves the store as it was.
C20_BadLineIgnored ==
    [][/\ LET v == value'
          IN  (/\ v # NONE /\ LoopLine(v)
               /\ startsWith(v, LineBoot) \/ malformed(v))
                 => /\ UNCHANGED <<port, reader, writer, reading, deviceReady,
                                   wantRunning, lastHz, status, records, axes,
                                   loops, stream, devOpen>>
                    /\ out' = <<>>
                    /\ loops'.read > 0 /\ stream' = "open" /\ devOpen'
       /\ LET v == sLine'
          IN  (/\ v # NONE /\ \E now \in LegacyClock : LegacyParse(v, now)
               /\ startsWith(v, LineBoot) \/ malformedLegacy(v))
                 => sLegacy' = sLegacy]_vars


-----------------------------------------------------------------------------
(* The close of the stream (SpecFramer) *)

\* the half of C21 that is about src/app.js: at the close of the stream a
\* non-empty this.chunks is emitted as one last line, an empty one as nothing
C21_AppFlushEmitsOne ==
    [][FramerClose
          => /\ fBuf # <<>> => fEmitted' = Append(fEmitted, fBuf)
             /\ fBuf = <<>> => fEmitted' = fEmitted]_vars

\* C21: when the stream closes, each framer emits the content of a non-empty
\* partial-line buffer as exactly one last line, after the lines it emitted
\* before, and emits nothing for an empty buffer.
C21_CloseEmitsPartialLine ==
    [][FramerClose
          => /\ fBuf # <<>> => fEmitted' = Append(fEmitted, fBuf)
             /\ fBuf = <<>> => fEmitted' = fEmitted
             /\ fBufLegacy # <<>>
                    => fEmittedLegacy' = Append(fEmittedLegacy, fBufLegacy)
             /\ fBufLegacy = <<>> => fEmittedLegacy' = fEmittedLegacy]_vars


-----------------------------------------------------------------------------
(* niceCeil of the legacy revision, src/unnamed/part_000:85-93 (SpecCeil) *)

\* every v from 1 up to the largest step
CeilInputs == 1..stepCandidates[Len(stepCandidates)]

InitCeil ==
    /\ SessionInit /\ FVarsIdle /\ LVarsIdle
    /\ sRecords = <<>> /\ sLegacy = <<>> /\ sHistory = <<>>
    /\ sCsv = NONE /\ sCsvLegacy = NONE /\ sLine = NONE
    /\ sAxes = InitAxes /\ sAxesLegacy = InitAxesLegacy
    /\ ceilIn \in CeilInputs /\ ceilOut = 0

\* niceCeil(ceilIn) is called and returns
CeilCall ==
    /\ ceilOut = 0
    /\ ceilOut' = niceCeil(ceilIn)
    /\ UNCHANGED <<sRecords, sLegacy, sHistory, sCsv, sCsvLegacy, sLine, sAxes,
                   sAxesLegacy, ceilIn, svars, fvars, lvars>>

NextCeil == CeilCall

SpecCeil == InitCeil /\ [][NextCeil]_vars

\* C22: what niceCeil returns for v is one of the steps 100, 200, 250, 500,
\* 1000, 2000, 5000, is at least v, and no smaller step is at least v.
C22_NiceCeilIsLadderCeiling ==
    ceilOut # 0
        => LET reach == {stepCandidates[i] : i \in 1..Len(stepCandidates)}
                            \cap {s \in CeilInputs : s >= ceilIn}
           IN  ceilOut \in reach /\ \A s \in reach : ceilOut <= s

\* what niceCeil does return: the next multiple of the first step
C22_NiceCeilIsNextHundred ==
    ceilOut # 0
        => /\ ceilOut % stepCandidates[1] = 0
           /\ ceilOut >= ceilIn /\ ceilOut - ceilIn < stepCandidates[1]


-----------------------------------------------------------------------------
(* The X axis after appends (SpecStore) *)

\* the time of the latest append, and the largest time appended since the
\* store was last emptied
latestTime == sHistory[Len(sHistory)][1]
largestTime ==
    CHOOSE m \in {sHistory[i][1] : i \in 1..Len(sHistory)} :
        \A i \in 1..Len(sHistory) : sHistory[i][1] <= m

\* C23 as stated, for both revisions: after every append xMax is the larger
\* of the default span and the latest time, and xMin is xMax minus the
\* default span, not below 0.
C23_WindowFollowsLatest ==
    sHistory # <<>>
        => /\ sAxes.xMax = Max(X_SPAN_DEFAULT_SEC * 1000, latestTime)
           /\ sAxes.xMin = Max(0, sAxes.xMax - X_SPAN_DEFAULT_SEC * 1000)
           /\ sAxesLegacy.xMax = Max(INITIAL_X_SPAN, latestTime)
           /\ sAxesLegacy.xMin = Max(0, sAxesLegacy.xMax - INITIAL_X_SPAN)

\* C23, amended: in src/app.js the window is as stated, its width is the
\* default span and it contains the latest time; in the legacy revision xMin
\* stays 0 and xMax is the default span or the first multiple of it that
\* reaches the largest time appended since the last clear, so the window
\* contains the latest time and only grows.
C23_WindowSlidesInAppGrowsInLegacy ==
    sHistory # <<>>
        => /\ sAxes.xMax = Max(X_SPAN_DEFAULT_SEC * 1000, latestTime)
           /\ sAxes.xMin = Max(0, sAxes.xMax - X_SPAN_DEFAULT_SEC * 1000)
           /\ sAxes.xMax - sAxes.xMin = X_SPAN_DEFAULT_SEC * 1000
           /\ sAxes.xMin <= latestTime /\ latestTime <= sAxes.xMax
           /\ sAxesLegacy.xMin = 0
           /\ sAxesLegacy.xMax
                  = Max(INITIAL_X_SPAN,
                        CeilDiv(largestTime, INITIAL_X_SPAN) * INITIAL_X_SPAN)
           /\ latestTime <= sAxesLegacy.xMax

\* an early sample appended after a late one: the window of src/app.js is
\* back at the start, the legacy window has kept its three spans
C23_Witness ==
    /\ Len(sHistory) = 2 /\ sHistory[1][1] = 25000 /\ sHistory[2][1] = 20
    /\ sAxes.xMin = 0 /\ sAxes.xMax = 10000
    /\ sAxesLegacy.xMin = 0 /\ sAxesLegacy.xMax = 30000

-----------------------------------------------------------------------------
(* SpecLegacy: the session of the legacy revision, src/unnamed/part_000.

   A reader is named by the number of the startReading call that made it,
   0 stands for null.  Every startReading call makes a fresh TextDecoderStream
   and pipes port.readable to it; the pipe locks port.readable until the
   decoder's readable is cancelled or the stream fails, so while one pipe
   lasts a later pipeTo rejects (the rejection is swallowed, line 165) and
   the later reader never receives anything.

   The handler of Disconnect is taken in one step: its cancel and its close
   settle before the next click or chunk is handled.  writer.releaseLock()
   succeeds.  As in Spec, port.close() fulfils only when no write is in
   flight; it rejects while port.readable is locked by a pipe.

   reader.releaseLock() with reads pending either rejects those reads or
   throws, by the version of the Streams implementation: both are taken. *)

RECURSIVE sumTo(_, _)
sumTo(f, n) == IF n = 0 THEN 0 ELSE f[n] + sumTo(f, n - 1)
\* the read loops of startReading suspended in `await reader.read()`
activeLoops == sumTo(lBlocked, MaxStarts)

\* src/unnamed/part_000:159-171 up to the first `await reader.read()`
startReading ==
    IF lPort = NULL
    THEN UNCHANGED <<lReading, lReader, lPiped, lBlocked, lCount>>
    ELSE /\ lReading' = TRUE
         /\ IF ~lDevOpen
            THEN \* port.readable is null: line 165 throws
                 UNCHANGED <<lReader, lPiped, lBlocked, lCount>>
            ELSE LET id == lCount + 1
                 IN  /\ lCount' = id
                     /\ lPiped' = IF lPiped = 0 THEN id ELSE lPiped
                     /\ lReader' = id
                     /\ lBlocked' = [lBlocked EXCEPT ![id] = @ + 1]

\* src/unnamed/part_000:185-187: the finally of a loop that leaves releases
\* and nulls the reader the variable `reader` holds at that time
releaseGlobal(blocked, rejects) ==
    IF lReader # 0 /\ rejects THEN [blocked EXCEPT ![lReader] = 0]
    ELSE blocked

\* src/unnamed/part_000:193-207
LConnect(outcome) ==
    /\ \/ /\ outcome = "denied"
          /\ UNCHANGED <<lPort, lWriter, lDevOpen>>
       \/ /\ outcome = "refused"
          /\ lPort' = "P"
          /\ UNCHANGED <<lWriter, lDevOpen>>
       \/ /\ outcome = "opened"
          /\ ~lDevOpen
          /\ lPort' = "P" /\ lWriter' = "W" /\ lDevOpen' = TRUE
    /\ UNCHANGED <<lReading, lReader, lPiped, lBlocked, lCount, lWrites>>
    /\ UNCHANGED <<svars, fvars, tvars>>

\* src/unnamed/part_000:209-218
LDisconnect(closeOk) ==
    /\ closeOk => lWrites = <<>>
    /\ lReading' = FALSE
    /\ IF lReader # 0
       THEN \* the loops blocked on `reader` get done, leave and null it
            /\ lBlocked' = [lBlocked EXCEPT ![lReader] = 0]
            /\ lReader' = IF lBlocked[lReader] > 0 THEN 0 ELSE lReader
            /\ lPiped' = IF lPiped = lReader THEN 0 ELSE lPiped
       ELSE UNCHANGED <<lBlocked, lReader, lPiped>>
    /\ lWriter' = NULL
    /\ lDevOpen' = IF lPort # NULL /\ closeOk /\ lPiped' = 0 THEN FALSE
                   ELSE lDevOpen
    /\ lPort' = NULL
    /\ UNCHANGED <<lCount, lWrites>>
    /\ UNCHANGED <<svars, fvars, tvars>>

\* src/unnamed/part_000:220-223, up to `await sendLine(..)`; without a port
\* or a writer the handler alerts and changes nothing
LStartClick ==
    /\ lPort # NULL /\ lWriter # NULL
    /\ Len(lWrites) < MaxPending
    /\ lCount + Len(lWrites) < MaxStarts
    /\ lWrites' = Append(lWrites, "START")
    /\ UNCHANGED <<lPort, lWriter, lReading, lReader, lDevOpen, lPiped,
                   lBlocked, lCount>>
    /\ UNCHANGED <<svars, fvars, tvars>>

\* src/unnamed/part_000:229-234, up to `await sendLine('STOP')`; without a
\* writer sendLine throws and the handler goes on at once
LStopClick ==
    /\ IF lWriter = NULL
       THEN lReading' = FALSE /\ UNCHANGED lWrites
       ELSE /\ Len(lWrites) < MaxPending
            /\ lWrites' = Append(lWrites, "STOP")
            /\ UNCHANGED lReading
    /\ UNCHANGED <<lPort, lWriter, lReader, lDevOpen, lPiped, lBlocked,
                   lCount>>
    /\ UNCHANGED <<svars, fvars, tvars>>

\* the oldest write settles and its handler goes on: Stop at line 231, Start
\* at lines 224-226 when the write was accepted
LWriteSettles(ok) ==
    /\ lWrites # <<>>
    /\ lWrites' = Tail(lWrites)
    /\ IF Head(lWrites) = "STOP"
       THEN lReading' = FALSE /\ UNCHANGED <<lReader, lPiped, lBlocked, lCount>>
       ELSE IF ok THEN startReading
            ELSE UNCHANGED <<lReading, lReader, lPiped, lBlocked, lCount>>
    /\ UNCHANGED <<lPort, lWriter, lDevOpen>>
    /\ UNCHANGED <<svars, fvars, tvars>>

\* src/unnamed/part_000:170-189: the device sends "7\n"; a loop blocked on the
\* piped reader takes it, hands the line to parseLine and comes back to the
\* top of `while (reading)`: it reads again from the reader the variable
\* `reader` holds now, or leaves
LChunk(rejects) ==
    /\ lPiped # 0 /\ lDevOpen
    /\ lBlocked[lPiped] > 0
    /\ sLegacy' = parseLine(<<"7">>, 20, sLegacy, sAxesLegacy).records
    /\ sAxesLegacy' = parseLine(<<"7">>, 20, sLegacy, sAxesLegacy).axes
    /\ LET left == [lBlocked EXCEPT ![lPiped] = @ - 1]
       IN  IF lReading /\ lReader # 0
           THEN /\ lBlocked' = [left EXCEPT ![lReader] = @ + 1]
                /\ UNCHANGED lReader
           ELSE /\ lBlocked' = releaseGlobal(left, rejects)
                /\ lReader' = 0
    /\ UNCHANGED <<lPort, lWriter, lReading, lDevOpen, lPiped, lCount, lWrites>>
    /\ UNCHANGED <<sRecords, sHistory, sCsv, sCsvLegacy, sLine, sAxes, ceilIn,
                   ceilOut, svars, fvars>>

\* port.readable fails: the pipe ends, the reads of the piped reader reject
\* and its loops leave through catch and finally (lines 183-187)
LStreamError(rejects) ==
    /\ lPiped # 0
    /\ LET left == [lBlocked EXCEPT ![lPiped] = 0]
       IN  IF lBlocked[lPiped] > 0
           THEN /\ lBlocked' = releaseGlobal(left, rejects)
                /\ lReader' = 0
           ELSE UNCHANGED <<lBlocked, lReader>>
    /\ lPiped' = 0
    /\ UNCHANGED <<lPort, lWriter, lReading, lDevOpen, lCount, lWrites>>
    /\ UNCHANGED <<svars, fvars, tvars>>

NextLegacy ==
    \/ \E outcome \in {"denied", "refused", "opened"} : LConnect(outcome)
    \/ \E closeOk \in BOOLEAN : LDisconnect(closeOk)
    \/ LStartClick
    \/ LStopClick
    \/ \E ok \in BOOLEAN : LWriteSettles(ok)
    \/ \E rejects \in BOOLEAN : LChunk(rejects)
    \/ \E rejects \in BOOLEAN : LStreamError(rejects)

SpecLegacy == Init /\ [][NextLegacy]_vars

\* C24 (src/unnamed/part_000): at most one read loop is suspended in
\* reader.read() at any time, whatever the order of the Connect, Start, Stop
\* and Disconnect clicks: no loop is started while an earlier one is active.
C24_OneReadLoop == activeLoops <= 1


\* C24 (src/app.js): of the read loops of startReaderLoop at most one is in
\* reader.read() or in the write it awaits; the others are in their finally.
C24_AppOneReadLoop == loops.read + loops.send <= 1


\* a loop of an earlier connection is still in its finally, at
\* `await reader?.cancel()`, and a later Connect has installed a reader on a
\* new stream (the loop closed its own stream when it entered the finally)
oldCleanupPending == loops.fin > 0 /\ reader # NULL /\ stream = "open"

\* C25 (src/app.js): the cleanup of a read loop of an earlier connection
\* neither cancels nor nulls the reader a later Connect has installed: when
\* such a cleanup finishes, reader and its stream are as they were.
C25_CleanupKeepsNewReader ==
    [][(oldCleanupPending /\ loops'.fin < loops.fin)
          => (reader' = reader /\ stream' = stream)]_vars

\* C25 (src/app.js): the cleanup of an earlier loop never cancels the stream
\* of the reader a later Connect installed.
C25_AppCleanupNeverCancelsNewStream ==
    [][(oldCleanupPending /\ loops'.fin < loops.fin) => stream' = stream]_vars

\* C25 (src/unnamed/part_000): a loop that leaves while the variable `reader`
\* holds the reader of a later startReading call leaves that reader in place.
C25_LegacyCleanupKeepsNewReader ==
    [][(\E rejects \in BOOLEAN : LChunk(rejects))
          => (lReader # lPiped => lReader' = lReader)]_vars

=============================================================================
